---- MODULE Spec2Model ----
(***************************************************************************)
(* Document ingestion pipeline: fetch -> download -> extract -> enrich ->  *)
(* persist (main.py), with the Slack client, the PDF processor, the        *)
(* metadata extractor and the database manager it drives.                  *)
(*                                                                         *)
(* File names and ids are sequences of tokens, so that the formatting      *)
(* f"{file_id}_{file_name}" and Path.with_suffix are computed, not assumed.*)
(***************************************************************************)
EXTENDS Integers, Sequences, FiniteSets, TLC

VARIABLES
    chan,       \* the channel: the pages conversations_history returns
    mn,         \* frame of main: its position, its locals, its exit code
    fx,         \* frame of SlackClient.fetch_messages
    runs,       \* history: how each finished run of main ended
    disk,       \* the storage directory: path -> file content
    dl,         \* frame of SlackClient.download_all_pdfs / download_pdf
    dlcalls,    \* history: one record per download_pdf call
    store,      \* the documents table: a set of rows
    now,        \* the database clock (CURRENT_TIMESTAMP)
    seq,        \* the SERIAL sequence behind documents.id
    ps,         \* frame of DatabaseManager.bulk_insert_documents
    px,         \* frame of PDFProcessor.process_pdfs and its pool workers
    en,         \* frame of MetadataExtractor.process_files
    em,         \* frame of MetadataExtractor.extract_metadata
    calls       \* invocations started so far (of main, or of the stage function)

dlVars == <<dl, dlcalls>>
dbVars == <<store, now, seq>>
enVars == <<en, em>>
mainVars == <<chan, mn, fx, runs>>
vars == <<chan, mn, fx, runs, disk, dl, dlcalls, store, now, seq, ps, px, en, em, calls>>

NULL == "null"

(***************************************************************************)
(* Bounds of the model.                                                    *)
(***************************************************************************)
MaxCalls == 2       \* calls of one stage function in a component specification
MaxRuns == 2        \* runs of main
ConfigMaxWorkers == 2   \* MAX_WORKERS of the environment (config.py:30)
CpuCount == 1       \* what cpu_count() returns on the machine
MaxRetriesArg == 4  \* largest max_retries passed to extract_metadata directly
CharsPerChunk == 2000   \* characters of text in one chunk of a body

(***************************************************************************)
(* The message source: attachments and messages as the Slack API returns   *)
(* them.  size is the body length in 8192-byte chunks.                     *)
(***************************************************************************)
PDF == "application/pdf"

F1 == [id |-> <<"F1">>, name |-> <<"a", ".", "pdf">>, mimetype |-> PDF,
       size |-> 2, permalink |-> "p1"]
F2 == [id |-> <<"F2">>, name |-> <<"b", ".", "pdf">>, mimetype |-> PDF,
       size |-> 1, permalink |-> "p2"]
F3 == [id |-> <<"F3">>, name |-> <<"c", ".", "png">>, mimetype |-> "image/png",
       size |-> 1, permalink |-> "p3"]

M1 == [ts |-> "t1", text |-> "m1", files |-> <<F1, F3>>]
M2 == [ts |-> "t2", text |-> "m2", files |-> <<F2>>]
M3 == [ts |-> "t3", text |-> "m3"]
M4 == [ts |-> "t4", text |-> "m4", files |-> <<F1>>]

\* a PDF that was uploaded under a name ending in .txt
F4 == [id |-> <<"F4">>, name |-> <<"d", ".", "txt">>, mimetype |-> PDF,
       size |-> 1, permalink |-> "p4"]
M5 == [ts |-> "t5", text |-> "m5", files |-> <<F4>>]

\* Python's [x for x in s if P(x)]
RECURSIVE SelectSeqOf(_, _)
SelectSeqOf(s, S) ==
    IF s = <<>> THEN <<>>
    ELSE (IF Head(s) \in S THEN <<Head(s)>> ELSE <<>>) \o SelectSeqOf(Tail(s), S)

Range(s) == {s[i] : i \in DOMAIN s}

Last(q) == q[Len(q)]

\* slack_client.py:79-84: the PDF attachments of a message
PdfFiles(m) ==
    IF "files" \in DOMAIN m
    THEN SelectSeqOf(m.files, {f \in Range(m.files) : f.mimetype = PDF})
    ELSE <<>>

\* slack_client.py:83: message['pdf_files'] = pdf_files
WithPdfFiles(m) ==
    [k \in DOMAIN m \cup {"pdf_files"} |->
        IF k = "pdf_files" THEN PdfFiles(m) ELSE m[k]]

(***************************************************************************)
(* The filesystem.  A file holds either the first n chunks of an           *)
(* attachment body, or an extracted text.                                  *)
(***************************************************************************)
\* slack_client.py:117: safe_filename = f"{file_id}_{file_name}"
SafeFilename(f) == f.id \o <<"_">> \o f.name

Exists(p) == p \in DOMAIN disk

Body(f, n) == [kind |-> "body", of |-> f.id, n |-> n]

\* the file at p holds the whole body of attachment f
Complete(p, f) == Exists(p) /\ disk[p] = Body(f, f.size)

WriteFile(d, p, c) == [q \in DOMAIN d \cup {p} |-> IF q = p THEN c ELSE d[q]]

(***************************************************************************)
(* SlackClient.download_all_pdfs and download_pdf.                         *)
(***************************************************************************)
\* the (message, file) pairs in the order of the two nested loops
RECURSIVE Entries(_)
Entries(msgs) ==
    IF msgs = <<>> THEN <<>>
    ELSE [i \in 1..Len(Head(msgs).pdf_files) |->
             [msg |-> Head(msgs), file |-> Head(msgs).pdf_files[i]]]
         \o Entries(Tail(msgs))

DlIdle == [ph |-> "idle", entries |-> <<>>, i |-> 1, out |-> <<>>]

\* slack_client.py:156: downloaded_files = []
DlBegin(msgs) == [ph |-> "check", entries |-> Entries(msgs), i |-> 1, out |-> <<>>]

DlEntry == dl.entries[dl.i]
DlPath == SafeFilename(DlEntry.file)

\* slack_client.py:166-174
DownloadedFile(e, local_path) ==
    [file_id |-> e.file.id, file_name |-> e.file.name, local_path |-> local_path,
     slack_url |-> e.file.permalink, message_ts |-> e.msg.ts,
     message_text |-> e.msg.text, file_size |-> e.file.size]

DlCall(requested, returned) ==
    [file |-> DlEntry.file, path |-> DlPath, requested |-> requested,
     returned |-> returned, call |-> calls]

\* (a bug that looks for the attachment under its bare name)
AlreadyDownloadedByName(p) == Exists(SubSeq(p, 3, Len(p)))

\* the test of download_pdf at slack_client.py:121
AlreadyDownloaded(p) == Exists(p)

\* slack_client.py:121-123: the file exists: no request, the path is returned
DlSkip ==
    /\ dl.ph = "check" /\ dl.i <= Len(dl.entries)
    /\ AlreadyDownloaded(DlPath)
    /\ dl' = [dl EXCEPT !.out = Append(@, DownloadedFile(DlEntry, DlPath)),
                        !.i = @ + 1]
    /\ dlcalls' = Append(dlcalls, DlCall(FALSE, TRUE))
    /\ UNCHANGED disk

\* slack_client.py:128-135: the request is answered and the file is opened
DlRequestOk ==
    /\ dl.ph = "check" /\ dl.i <= Len(dl.entries)
    /\ ~AlreadyDownloaded(DlPath)
    /\ disk' = WriteFile(disk, DlPath, Body(DlEntry.file, 0))
    /\ dl' = [dl EXCEPT !.ph = "write"]
    /\ UNCHANGED dlcalls

\* (a bug that lets the first failure end the loop)
DlRequestFailEndsLoop ==
    /\ dl.ph = "check" /\ dl.i <= Len(dl.entries)
    /\ ~AlreadyDownloaded(DlPath)
    /\ dl' = [dl EXCEPT !.i = Len(dl.entries) + 1]
    /\ dlcalls' = Append(dlcalls, DlCall(TRUE, FALSE))
    /\ UNCHANGED disk

\* slack_client.py:128-129, 142-144, 175-177: the request fails; the entry is dropped
DlRequestFail ==
    /\ dl.ph = "check" /\ dl.i <= Len(dl.entries)
    /\ ~AlreadyDownloaded(DlPath)
    /\ dl' = [dl EXCEPT !.i = @ + 1]
    /\ dlcalls' = Append(dlcalls, DlCall(TRUE, FALSE))
    /\ UNCHANGED disk

\* slack_client.py:136-137: one chunk of the body is written
DlWriteChunk ==
    /\ dl.ph = "write"
    /\ disk[DlPath].n < DlEntry.file.size
    /\ disk' = [disk EXCEPT ![DlPath].n = @ + 1]
    /\ UNCHANGED <<dl, dlcalls>>

\* slack_client.py:136-137, 142-144, 175-177: the stream or the write fails
DlWriteError ==
    /\ dl.ph = "write"
    /\ disk[DlPath].n < DlEntry.file.size
    /\ dl' = [dl EXCEPT !.ph = "check", !.i = @ + 1]
    /\ dlcalls' = Append(dlcalls, DlCall(TRUE, FALSE))
    /\ UNCHANGED disk

\* slack_client.py:139-140, 164-174: the body is written; the path is returned
DlFinish ==
    /\ dl.ph = "write"
    /\ disk[DlPath].n = DlEntry.file.size
    /\ dl' = [dl EXCEPT !.ph = "check", !.i = @ + 1,
                        !.out = Append(@, DownloadedFile(DlEntry, DlPath))]
    /\ dlcalls' = Append(dlcalls, DlCall(TRUE, TRUE))
    /\ UNCHANGED disk

\* slack_client.py:179-180: return downloaded_files
DlReturn ==
    /\ dl.ph = "check" /\ dl.i > Len(dl.entries)
    /\ dl' = [dl EXCEPT !.ph = "done"]
    /\ UNCHANGED <<disk, dlcalls>>

DlStep ==
    \/ DlSkip \/ DlRequestOk \/ DlRequestFail
    \/ DlWriteChunk \/ DlWriteError \/ DlFinish \/ DlReturn

(***************************************************************************)
(* PDFProcessor and MetadataExtractor records (the stages themselves are   *)
(* further down).  A text is known by the content it was extracted from    *)
(* and by its length; the empty string is EmptyText.                       *)
(***************************************************************************)
EmptyText == [of |-> <<>>, len |-> 0]

NoMetadata == [title |-> NULL, publication_date |-> NULL]

\* Python's {**a, **b}
Merge(a, b) == [k \in DOMAIN a \cup DOMAIN b |-> IF k \in DOMAIN b THEN b[k] ELSE a[k]]

(***************************************************************************)
(* DatabaseManager: the documents table, insert_document and               *)
(* bulk_insert_documents.                                                  *)
(***************************************************************************)
\* what PostgreSQL accepts for publication_date DATE (db_manager.py:53)
ValidDate(d) == d \in {NULL, "2024-01-01"}

\* db_manager.py:133-144: doc_data
DocData(document) ==
    [file_id |-> document.file_id,
     file_name |-> document.file_name,
     title |-> IF "title" \in DOMAIN document THEN document.title ELSE NULL,
     publication_date |-> IF "publication_date" \in DOMAIN document
                          THEN document.publication_date ELSE NULL,
     extracted_text_path |-> IF "text_file_path" \in DOMAIN document
                             THEN document.text_file_path ELSE <<>>,
     text_length |-> IF "text_length" \in DOMAIN document
                     THEN document.text_length ELSE 0,
     slack_url |-> document.slack_url,
     message_ts |-> document.message_ts,
     message_text |-> document.message_text,
     file_size |-> document.file_size]

\* db_manager.py:110-118: the row INSERT adds; id, processed_at and updated_at
\* take their column defaults (db_manager.py:49, 60, 61)
NewRow(d, id, t) ==
    Merge(d, [id |-> id, processed_at |-> t, updated_at |-> t])

\* (a bug that replaces the row, insertion time included)
ReplacedRow(r, d, t) == Merge(r, NewRow(d, r.id, t))

\* db_manager.py:119-125: ON CONFLICT (file_id) DO UPDATE SET ...
UpdatedRow(r, d, t) ==
    [r EXCEPT !.title = d.title,
              !.publication_date = d.publication_date,
              !.extracted_text_path = d.extracted_text_path,
              !.text_length = d.text_length,
              !.updated_at = t]

\* (a bug that takes a row for the same document only if its title matches too)
ConflictsOnTitle(rows, d) == {r \in rows : r.file_id = d.file_id /\ r.title = d.title}

\* the rows that violate UNIQUE (file_id) with d (db_manager.py:119)
Conflicts(rows, d) == {r \in rows : r.file_id = d.file_id}

\* (a bug that inserts without the conflict clause, on a table without the key)
PlainInsert(rows, d, id, t) == rows \cup {NewRow(d, id, t)}

\* db_manager.py:110-126: the statement's effect on the table at time t
Upsert(rows, d, id, t) ==
    IF Conflicts(rows, d) = {}
    THEN rows \cup {NewRow(d, id, t)}
    ELSE {IF r \in Conflicts(rows, d) THEN UpdatedRow(r, d, t) ELSE r : r \in rows}

\* RETURNING id
UpsertId(rows, d, id) ==
    IF Conflicts(rows, d) = {} THEN id
    ELSE (CHOOSE r \in Conflicts(rows, d) : TRUE).id

PsIdle == [ph |-> "idle", docs |-> <<>>, i |-> 1, success_count |-> 0, ids |-> <<>>]

\* db_manager.py:167: success_count = 0
PsBegin(docs) == [ph |-> "loop", docs |-> docs, i |-> 1, success_count |-> 0, ids |-> <<>>]

PsDoc == ps.docs[ps.i]

\* db_manager.py:129-152, 170-172: the statement runs and is committed
PsInsertOk ==
    /\ ps.ph = "loop" /\ ps.i <= Len(ps.docs)
    /\ ValidDate(DocData(PsDoc).publication_date)
    /\ now' = now + 1
    /\ seq' = seq + 1
    /\ store' = Upsert(store, DocData(PsDoc), seq, now')
    /\ ps' = [ps EXCEPT !.i = @ + 1,
                        !.ids = Append(@, UpsertId(store, DocData(PsDoc), seq)),
                        !.success_count = @ + 1]

\* (a bug that gives up the batch at the first failure)
PsInsertFailAborts ==
    /\ ps.ph = "loop" /\ ps.i <= Len(ps.docs)
    /\ now' = now + 1
    /\ ps' = [ps EXCEPT !.i = Len(ps.docs) + 1, !.ids = Append(@, 0)]
    /\ UNCHANGED <<store, seq>>

\* db_manager.py:154-156, 170-172: connecting or the statement fails: None
PsInsertFail ==
    /\ ps.ph = "loop" /\ ps.i <= Len(ps.docs)
    /\ now' = now + 1
    /\ ps' = [ps EXCEPT !.i = @ + 1, !.ids = Append(@, 0)]
    /\ UNCHANGED <<store, seq>>

\* db_manager.py:174-175: return success_count
PsReturn ==
    /\ ps.ph = "loop" /\ ps.i > Len(ps.docs)
    /\ ps' = [ps EXCEPT !.ph = "done"]
    /\ UNCHANGED dbVars

PsStep == PsInsertOk \/ PsInsertFail \/ PsReturn

(***************************************************************************)
(* PDFProcessor: extract_text_from_pdf, process_single_pdf, process_pdfs.  *)
(***************************************************************************)
\* PurePath.with_suffix: the last "." of the name starts the suffix unless it
\* is the first or the last token of the name
DotAt(p) ==
    LET dots == {i \in 2..(Len(p) - 1) : p[i] = "."}
    IN  IF dots = {} THEN 0 ELSE CHOOSE i \in dots : \A j \in dots : j <= i

\* pdf_processor.py:59: pdf_path.with_suffix('.txt')
WithSuffixTxt(p) ==
    (IF DotAt(p) = 0 THEN p ELSE SubSeq(p, 1, DotAt(p) - 1)) \o <<".", "txt">>

\* pdf_processor.py:27-36: the text fitz reads out of a file's content
TextOf(c) ==
    IF c.kind = "body" /\ c.n > 0
    THEN [of |-> c.of, len |-> c.n * CharsPerChunk]
    ELSE EmptyText

\* pdf_processor.py:67-72
ProcessedFile(file_info, text) ==
    Merge(file_info, [extracted_text |-> text,
                      text_file_path |-> WithSuffixTxt(file_info.local_path),
                      text_length |-> text.len])

Min(a, b) == IF a <= b THEN a ELSE b

\* pdf_processor.py:85-88: PDFProcessor.__init__; the argument is <<>> for
\* None and <<n>> for a number
PDFProcessorInit(max_workers) ==
    IF max_workers = <<>> THEN Min(ConfigMaxWorkers, CpuCount) ELSE max_workers[1]

\* main.py:74: PDFProcessor(Config.MAX_WORKERS); pdf_processor.py:111: the
\* number of processes of the pool
PoolSize == PDFProcessorInit(<<ConfigMaxWorkers>>)

\* xfail: the extraction of the worker's file has failed
WorkerIdle == [st |-> "idle", idx |-> 0, text |-> EmptyText, xfail |-> FALSE]

PxIdle == [ph |-> "idle", files |-> <<>>, next |-> 1,
           w |-> [k \in 1..PoolSize |-> WorkerIdle], done |-> <<>>, out |-> <<>>]

\* pdf_processor.py:111-112: the pool is started and the files are queued
PxBegin(files) ==
    IF files = <<>>
    THEN [PxIdle EXCEPT !.ph = "done"]
    ELSE [PxIdle EXCEPT !.ph = "run", !.files = files]

\* (a bug that returns the results in the order the workers finish)
PoolUnordered(done) == [i \in 1..Len(done) |-> done[i].rec]

\* pdf_processor.py:112: Pool.map puts each task's result at the task's index
PoolMap(done) ==
    [i \in 1..Len(done) |-> (CHOOSE d \in Range(done) : d.idx = i).rec]

\* an idle worker takes the next task of the queue
PxTake(k) ==
    /\ px.ph = "run" /\ px.w[k].st = "idle" /\ px.next <= Len(px.files)
    /\ px' = [px EXCEPT !.w[k] = [WorkerIdle EXCEPT !.st = "open", !.idx = px.next],
                        !.next = @ + 1]
    /\ UNCHANGED disk

\* pdf_processor.py:25-39: the text is read, page by page
PxExtractOk(k) ==
    /\ px.ph = "run" /\ px.w[k].st = "open"
    /\ Exists(px.files[px.w[k].idx].local_path)
    /\ px' = [px EXCEPT !.w[k].st = "write",
                        !.w[k].text = TextOf(disk[px.files[px.w[k].idx].local_path])]
    /\ UNCHANGED disk

\* pdf_processor.py:41-43: any error of the extraction gives ""
PxExtractFail(k) ==
    /\ px.ph = "run" /\ px.w[k].st = "open"
    /\ px' = [px EXCEPT !.w[k].st = "write", !.w[k].text = EmptyText,
                        !.w[k].xfail = TRUE]
    /\ UNCHANGED disk

\* pdf_processor.py:67-72: what the worker returns for its task; xfail and
\* sfail tell whether the extraction and the sidecar write have failed
PxResult(k, sfail) ==
    [idx |-> px.w[k].idx, rec |-> ProcessedFile(px.files[px.w[k].idx], px.w[k].text),
     xfail |-> px.w[k].xfail, sfail |-> sfail]

\* pdf_processor.py:60-63, 67-72: the sidecar is written, the record returned
PxSidecarOk(k) ==
    /\ px.ph = "run" /\ px.w[k].st = "write"
    /\ disk' = WriteFile(disk, WithSuffixTxt(px.files[px.w[k].idx].local_path),
                         [kind |-> "text", of |-> px.w[k].text.of, n |-> px.w[k].text.len])
    /\ px' = [px EXCEPT !.w[k] = WorkerIdle, !.done = Append(@, PxResult(k, FALSE))]

\* (a bug that returns no text when the sidecar cannot be written)
PxSidecarFailLosesText(k) ==
    /\ px.ph = "run" /\ px.w[k].st = "write"
    /\ px' = [px EXCEPT !.w[k] = WorkerIdle,
                        !.done = Append(@, [PxResult(k, TRUE) EXCEPT
                            !.rec = ProcessedFile(px.files[px.w[k].idx], EmptyText)])]
    /\ UNCHANGED disk

\* pdf_processor.py:64-65, 67-72: the sidecar cannot be written; the record is
\* returned all the same
PxSidecarFail(k) ==
    /\ px.ph = "run" /\ px.w[k].st = "write"
    /\ px' = [px EXCEPT !.w[k] = WorkerIdle, !.done = Append(@, PxResult(k, TRUE))]
    /\ UNCHANGED disk

\* pdf_processor.py:112-120: map returns once every task has its result
PxReturn ==
    /\ px.ph = "run" /\ Len(px.done) = Len(px.files)
    /\ px' = [px EXCEPT !.ph = "done", !.out = PoolMap(px.done)]
    /\ UNCHANGED disk

PxStep ==
    \/ \E k \in 1..PoolSize :
          PxTake(k) \/ PxExtractOk(k) \/ PxExtractFail(k)
          \/ PxSidecarOk(k) \/ PxSidecarFail(k)
    \/ PxReturn

(***************************************************************************)
(* MetadataExtractor: extract_metadata and process_files.                  *)
(***************************************************************************)
PrefixLen == 3000           \* metadata_extractor.py:37
DefaultMaxRetries == 3      \* metadata_extractor.py:25
ApiErrorDelay == 2          \* metadata_extractor.py:93

\* (a bug that sends the whole text)
Untruncated(text) == text

\* metadata_extractor.py:37: text[:3000] if len(text) > 3000 else text
Truncated(text) == IF text.len > PrefixLen THEN [text EXCEPT !.len = PrefixLen] ELSE text

\* what the parsed response of the inference service may hold
Responses ==
    { [title |-> "T", publication_date |-> "2024-01-01"],
      [title |-> "T", publication_date |-> "soon"],
      [title |-> NULL, publication_date |-> NULL] }

EmIdle == [ph |-> "idle", text |-> EmptyText, attempt |-> 0, max_retries |-> 0,
           hist |-> <<>>, waits |-> <<>>, result |-> NoMetadata]

\* metadata_extractor.py:25-56: the prompt is built; range(max_retries) starts
EmBegin(text, max_retries) ==
    [EmIdle EXCEPT !.ph = IF max_retries > 0 THEN "call" ELSE "ret",
                   !.text = Truncated(text), !.max_retries = max_retries]

EmReturn(outcome, result) ==
    [em EXCEPT !.ph = "ret", !.hist = Append(@, outcome), !.result = result]

\* (a bug that counts the rate-limit errors only)
EmRetryPerKind(outcome, wait) ==
    [em EXCEPT !.attempt = IF outcome = "rate_limit" THEN @ + 1 ELSE @,
               !.hist = Append(@, outcome), !.waits = Append(@, wait)]

\* metadata_extractor.py:56, 105: the next attempt of range(max_retries), or,
\* past its end, the return that follows the loop
EmRetry(outcome, wait) ==
    [em EXCEPT !.attempt = @ + 1, !.hist = Append(@, outcome),
               !.waits = Append(@, wait),
               !.ph = IF em.attempt + 1 < em.max_retries THEN "call" ELSE "ret"]

\* metadata_extractor.py:60-78: the call succeeds and its JSON is parsed
EmOk ==
    /\ em.ph = "call"
    /\ \E r \in Responses : em' = EmReturn("ok", r)

\* (a bug that retries without counting the attempt)
EmRateLimitUncounted ==
    /\ em.ph = "call"
    /\ em' = IF em.attempt < em.max_retries - 1
             THEN [em EXCEPT !.hist = Append(@, "rate_limit"),
                             !.waits = Append(@, 2 ^ em.attempt)]
             ELSE EmReturn("rate_limit", NoMetadata)

\* metadata_extractor.py:80-88: RateLimitError
EmRateLimit ==
    /\ em.ph = "call"
    /\ em' = IF em.attempt < em.max_retries - 1
             THEN EmRetry("rate_limit", 2 ^ em.attempt)
             ELSE EmReturn("rate_limit", NoMetadata)

\* (a bug that backs off exponentially on every error)
EmApiErrorBackoff ==
    /\ em.ph = "call"
    /\ em' = IF em.attempt < em.max_retries - 1
             THEN EmRetry("api_error", 2 ^ em.attempt)
             ELSE EmReturn("api_error", NoMetadata)

\* metadata_extractor.py:90-95: APIError
EmApiError ==
    /\ em.ph = "call"
    /\ em' = IF em.attempt < em.max_retries - 1
             THEN EmRetry("api_error", ApiErrorDelay)
             ELSE EmReturn("api_error", NoMetadata)

\* (a bug that tries again after a response that is no JSON)
EmMalformedRetried ==
    /\ em.ph = "call"
    /\ em' = IF em.attempt < em.max_retries - 1
             THEN EmRetry("malformed", ApiErrorDelay)
             ELSE EmReturn("malformed", NoMetadata)

\* metadata_extractor.py:97-99: json.JSONDecodeError
EmMalformed ==
    /\ em.ph = "call"
    /\ em' = EmReturn("malformed", NoMetadata)

\* metadata_extractor.py:101-103: any other Exception
EmUnexpected ==
    /\ em.ph = "call"
    /\ em' = EmReturn("unexpected", NoMetadata)

EmStep == EmOk \/ EmRateLimit \/ EmApiError \/ EmMalformed \/ EmUnexpected

EnIdle == [ph |-> "idle", files |-> <<>>, i |-> 1, out |-> <<>>, delays |-> 0]

\* metadata_extractor.py:118: processed_files = []
EnBegin(files) == [EnIdle EXCEPT !.ph = "loop", !.files = files]

\* (a bug that leaves out the documents without metadata)
EnAppendUnlessNull(metadata) ==
    [en EXCEPT !.ph = "loop", !.i = @ + 1,
               !.out = IF metadata = NoMetadata THEN @
                       ELSE Append(@, Merge(en.files[en.i], metadata)),
               !.delays = IF en.i < Len(en.files) THEN @ + 1 ELSE @]

\* (a bug that sleeps after the last document too)
EnAppendThenDelay(metadata) ==
    [en EXCEPT !.ph = "loop", !.i = @ + 1,
               !.out = Append(@, Merge(en.files[en.i], metadata)),
               !.delays = @ + 1]

\* metadata_extractor.py:129-136: the record is appended, then the delay
EnAppend(metadata) ==
    [en EXCEPT !.ph = "loop", !.i = @ + 1,
               !.out = Append(@, Merge(en.files[en.i], metadata)),
               !.delays = IF en.i < Len(en.files) THEN @ + 1 ELSE @]

\* metadata_extractor.py:122: file_info.get('extracted_text', '')
GetText(file_info) ==
    IF "extracted_text" \in DOMAIN file_info THEN file_info.extracted_text ELSE EmptyText

\* metadata_extractor.py:122-125: no text, no call
EnNoText ==
    /\ en.ph = "loop" /\ en.i <= Len(en.files)
    /\ GetText(en.files[en.i]).len = 0
    /\ en' = EnAppend(NoMetadata)
    /\ UNCHANGED em

\* metadata_extractor.py:126-127: extract_metadata(text) is called
EnExtract ==
    /\ en.ph = "loop" /\ en.i <= Len(en.files)
    /\ GetText(en.files[en.i]).len # 0
    /\ en' = [en EXCEPT !.ph = "wait"]
    /\ em' = EmBegin(GetText(en.files[en.i]), DefaultMaxRetries)

\* metadata_extractor.py:127-136: extract_metadata has returned
EnGot ==
    /\ en.ph = "wait" /\ em.ph = "ret"
    /\ en' = EnAppend(em.result)
    /\ em' = EmIdle

\* metadata_extractor.py:138-139: return processed_files
EnReturn ==
    /\ en.ph = "loop" /\ en.i > Len(en.files)
    /\ en' = [en EXCEPT !.ph = "done"]
    /\ UNCHANGED em

EnStep == EnNoText \/ EnExtract \/ EnGot \/ EnReturn \/ (EmStep /\ UNCHANGED en)

(***************************************************************************)
(* SlackClient.get_channel_id and fetch_messages.  Channel names and ids   *)
(* are sequences of characters.  A response names the page that follows by *)
(* next_cursor; 0 stands for an absent or empty cursor.                    *)
(***************************************************************************)
Page(messages, has_more, next_cursor) ==
    [messages |-> messages, has_more |-> has_more, next_cursor |-> next_cursor]

Channels ==
    { <<Page(<<M1, M3, M2>>, FALSE, 0)>>,
      <<Page(<<M1>>, TRUE, 2), Page(<<M3, M4>>, FALSE, 0)>>,
      <<Page(<<M3>>, TRUE, 0), Page(<<M2>>, FALSE, 0)>> }

\* response['channels'] of conversations_list: the channels of the workspace
Listed ==
    << [id |-> <<"C", "1">>, name |-> <<"r", "e", "s">>],
       [id |-> <<"C", "2">>, name |-> <<"g", "e", "n">>] >>

\* config.py:15: SLACK_CHANNEL
SlackChannel == <<"r", "e", "s">>

\* conversations_history: the pages of a channel; chan is the channel the
\* pipeline reads, any other listed channel is empty
History(channel_id) ==
    IF channel_id = Listed[1].id THEN chan ELSE <<Page(<<>>, FALSE, 0)>>

\* the ids conversations_history answers for
KnownIds == {Listed[i].id : i \in DOMAIN Listed}

\* slack_client.py:61: channel.startswith('C')
StartsWithC(channel) == channel # <<>> /\ Head(channel) = "C"

\* slack_client.py:41-45: the id of the first listed channel of that name
RECURSIVE GetChannelId(_, _)
GetChannelId(channels, channel_name) ==
    IF channels = <<>> THEN NULL
    ELSE IF Head(channels).name = channel_name THEN Head(channels).id
    ELSE GetChannelId(Tail(channels), channel_name)

\* slack_client.py:79-85: the messages of a page that carry a PDF
RECURSIVE PdfMessages(_)
PdfMessages(msgs) ==
    IF msgs = <<>> THEN <<>>
    ELSE (IF PdfFiles(Head(msgs)) # <<>> THEN <<WithPdfFiles(Head(msgs))>> ELSE <<>>)
         \o PdfMessages(Tail(msgs))

\* reqs is the history of the conversations_history requests of the call
FxIdle == [ph |-> "idle", channel |-> <<>>, channel_id |-> NULL, cursor |-> 0,
           out |-> <<>>, reqs |-> <<>>, err |-> NULL]

\* slack_client.py:60-67: a name is to be resolved, an id is taken as it is;
\* cursor = None
FxBegin(channel) ==
    [FxIdle EXCEPT !.ph = IF StartsWithC(channel) THEN "page" ELSE "resolve",
                   !.channel = channel,
                   !.channel_id = IF StartsWithC(channel) THEN channel ELSE NULL]

\* the exception leaves fetch_messages: its locals are gone
FxRaise(err, reqs) ==
    [FxIdle EXCEPT !.ph = "raised", !.channel = fx.channel, !.err = err, !.reqs = reqs]

\* slack_client.py:40-45, 62: the list is answered: the id, or ValueError
FxResolve ==
    /\ fx.ph = "resolve"
    /\ fx' = IF GetChannelId(Listed, fx.channel) = NULL
             THEN FxRaise("ValueError", fx.reqs)
             ELSE [fx EXCEPT !.ph = "page",
                             !.channel_id = GetChannelId(Listed, fx.channel)]

\* slack_client.py:40, 46-48: conversations_list fails
FxListFail ==
    /\ fx.ph = "resolve"
    /\ fx' = FxRaise("SlackApiError", fx.reqs)

FxRequest(ok) == [channel |-> fx.channel_id, cursor |-> fx.cursor, ok |-> ok]

FxResponse == History(fx.channel_id)[IF fx.cursor = 0 THEN 1 ELSE fx.cursor]

\* (a bug that follows the cursor whatever has_more says)
FxPageUntilNoCursor ==
    /\ fx.ph = "page" /\ fx.channel_id \in KnownIds
    /\ fx' = [fx EXCEPT
                !.out = @ \o PdfMessages(FxResponse.messages),
                !.cursor = FxResponse.next_cursor,
                !.reqs = Append(@, FxRequest(TRUE)),
                !.ph = IF FxResponse.next_cursor # 0 THEN "page" ELSE "done"]

\* slack_client.py:72-96: one page is fetched and filtered
FxPage ==
    /\ fx.ph = "page" /\ fx.channel_id \in KnownIds
    /\ fx' = [fx EXCEPT
                !.out = @ \o PdfMessages(FxResponse.messages),
                !.cursor = FxResponse.next_cursor,
                !.reqs = Append(@, FxRequest(TRUE)),
                !.ph = IF FxResponse.has_more /\ FxResponse.next_cursor # 0
                       THEN "page" ELSE "done"]

\* (a bug that catches the error and returns what it has)
FxFailReturnsPartial ==
    /\ fx.ph = "page"
    /\ fx' = [fx EXCEPT !.ph = "done", !.reqs = Append(@, FxRequest(FALSE))]

\* slack_client.py:72-76, 98-100: the API call fails (always so for an id
\* the workspace does not know) and the error is raised
FxFail ==
    /\ fx.ph = "page"
    /\ fx' = FxRaise("SlackApiError", Append(fx.reqs, FxRequest(FALSE)))

FxStep == FxResolve \/ FxListFail \/ FxPage \/ FxFail

(***************************************************************************)
(* main: the five stages, one after the other.                             *)
(***************************************************************************)
Stages == {"fetch", "download", "extract", "enrich", "persist"}

MaxAttempts == 30           \* main.py:26
ProbeDelay == 2             \* main.py:26

\* frame of wait_for_database when it is followed probe by probe.  probes
\* holds the outcome of each probe so far, sleeps the number of the probe
\* each sleep came after, slept the seconds slept
WfIdle == [ph |-> "idle", max_attempts |-> 0, attempt |-> 0, probes |-> <<>>,
           sleeps |-> <<>>, slept |-> 0, result |-> FALSE]

MnIdle == [pc |-> "idle", messages |-> <<>>, downloaded_files |-> <<>>,
           processed_files |-> <<>>, files_with_metadata |-> <<>>,
           inserted_count |-> 0, requests |-> 0, dropped |-> FALSE, store0 |-> {},
           wait |-> WfIdle]

otherVars == <<disk, dlVars, dbVars, ps, px, enVars>>

\* main.py:37-39, 54: range(max_attempts) starts; past its end, return False
WfBegin(max_attempts) ==
    [WfIdle EXCEPT !.ph = IF max_attempts > 0 THEN "probe" ELSE "ret",
                   !.max_attempts = max_attempts]

\* main.py:40-45: the probe is answered: return True
WfProbeOk ==
    /\ mn.wait.ph = "probe"
    /\ mn' = [mn EXCEPT !.wait.ph = "ret", !.wait.result = TRUE,
                        !.wait.probes = Append(@, TRUE)]

\* (a bug that sleeps after every failed probe and returns after the loop)
WfProbeFailThenSleep ==
    /\ mn.wait.ph = "probe"
    /\ mn' = [mn EXCEPT !.wait.probes = Append(@, FALSE),
                        !.wait.sleeps = Append(@, mn.wait.attempt + 1),
                        !.wait.slept = @ + ProbeDelay,
                        !.wait.attempt = @ + 1,
                        !.wait.ph = IF mn.wait.attempt + 1 < mn.wait.max_attempts
                                    THEN "probe" ELSE "ret"]

\* main.py:46-52: the probe fails: sleep and go on, or, at the last attempt,
\* return False
WfProbeFail ==
    /\ mn.wait.ph = "probe"
    /\ mn' = IF mn.wait.attempt < mn.wait.max_attempts - 1
             THEN [mn EXCEPT !.wait.probes = Append(@, FALSE),
                             !.wait.sleeps = Append(@, mn.wait.attempt + 1),
                             !.wait.slept = @ + ProbeDelay,
                             !.wait.attempt = @ + 1]
             ELSE [mn EXCEPT !.wait.probes = Append(@, FALSE),
                             !.wait.ph = "ret", !.wait.result = FALSE]

WfStep ==
    /\ WfProbeOk \/ WfProbeFail
    /\ UNCHANGED <<chan, fx, runs, calls, otherVars>>

\* the environment of a run: the two credentials, set or empty
Configs == [SLACK_BOT_TOKEN : {"", "xoxb"}, OPENAI_API_KEY : {"", "sk"}]

\* config.py:32-38: Config.validate
Validate(cfg) ==
    IF cfg.SLACK_BOT_TOKEN = "" THEN "ValueError"
    ELSE IF cfg.OPENAI_API_KEY = "" THEN "ValueError"
    ELSE "ok"

\* main.py:39-54: the loop of wait_for_database from the given attempt on,
\* against a database that answers from its ready_at-th probe on
RECURSIVE WaitLoop(_, _, _)
WaitLoop(attempt, ready_at, slept) ==
    IF attempt >= MaxAttempts
    THEN [ready |-> FALSE, probes |-> attempt, slept |-> slept]
    ELSE IF attempt + 1 >= ready_at
    THEN [ready |-> TRUE, probes |-> attempt + 1, slept |-> slept]
    ELSE IF attempt < MaxAttempts - 1
    THEN WaitLoop(attempt + 1, ready_at, slept + ProbeDelay)
    ELSE [ready |-> FALSE, probes |-> attempt + 1, slept |-> slept]

\* main.py:26-54
WaitForDatabase(ready_at) == WaitLoop(0, ready_at, 0)

\* the probe from which the database answers; the last value is "never"
ReadyAts == {1, 2, MaxAttempts, MaxAttempts + 1}

\* (a bug that returns from main when the database is not there)
ExitCodeUnlessCaught(why) ==
    IF why \in {"complete", "no_messages", "no_files", "database"} THEN "exit0" ELSE "exit1"

\* main.py:87, 101, 114, 153-160: return ends the process with status 0,
\* sys.exit(1) with status 1
ExitCode(why) ==
    IF why \in {"complete", "no_messages", "no_files"} THEN "exit0" ELSE "exit1"

\* the process ends: what the run did is kept in the history, its locals are gone
Exit(why, failed, upserted) ==
    /\ mn' = [MnIdle EXCEPT !.pc = ExitCode(why)]
    /\ runs' = Append(runs, [exit |-> ExitCode(why), why |-> why,
                             full |-> why = "complete", dropped |-> mn.dropped,
                             failed |-> failed, requests |-> mn.requests,
                             upserted |-> upserted, store0 |-> mn.store0])

\* (a bug that calls fetch_messages before the database is awaited)
MainStartFetchesEarly ==
    /\ mn.pc \in {"idle", "exit0", "exit1"} /\ calls < MaxRuns
    /\ calls' = calls + 1
    /\ mn' = [MnIdle EXCEPT !.pc = "wait", !.store0 = store]
    /\ fx' = FxBegin(SlackChannel)
    /\ UNCHANGED <<chan, runs, otherVars>>

\* main.py:57-82: a run starts (a new process): the configuration is
\* validated and the components are built
MainStart ==
    /\ mn.pc \in {"idle", "exit0", "exit1"} /\ calls < MaxRuns
    /\ calls' = calls + 1
    /\ \E cfg \in Configs :
          IF Validate(cfg) = "ok"
          THEN /\ mn' = [MnIdle EXCEPT !.pc = "wait", !.store0 = store]
               /\ UNCHANGED runs
          ELSE /\ mn' = [MnIdle EXCEPT !.pc = ExitCode("config")]
               /\ runs' = Append(runs,
                     [exit |-> ExitCode("config"), why |-> "config",
                      full |-> FALSE, dropped |-> FALSE, failed |-> FALSE,
                      requests |-> 0, upserted |-> {}, store0 |-> store])
    /\ UNCHANGED <<chan, fx, otherVars>>

\* main.py:84-96: the database is awaited: sys.exit(1) if it is not there;
\* else the schema is created and fetch_messages is called
MainWaited ==
    /\ mn.pc = "wait"
    /\ \E ready_at \in ReadyAts, schema_ok \in BOOLEAN :
          IF ~WaitForDatabase(ready_at).ready
          THEN Exit("database", FALSE, {}) /\ UNCHANGED fx
          ELSE IF ~schema_ok
          THEN Exit("error", FALSE, {}) /\ UNCHANGED fx
          ELSE /\ mn' = [mn EXCEPT !.pc = "fetch"]
               /\ fx' = FxBegin(SlackChannel)
               /\ UNCHANGED runs
    /\ UNCHANGED <<chan, calls, otherVars>>

\* main.py:96-109: no message: exit; else download_all_pdfs is called
MainFetched ==
    /\ mn.pc = "fetch" /\ fx.ph = "done"
    /\ fx' = FxIdle
    /\ IF fx.out = <<>>
       THEN /\ Exit("no_messages", FALSE, {})
            /\ UNCHANGED dl
       ELSE /\ mn' = [mn EXCEPT !.pc = "download", !.messages = fx.out]
            /\ dl' = DlBegin(fx.out)
            /\ UNCHANGED runs
    /\ UNCHANGED <<chan, calls, disk, dlcalls, dbVars, ps, px, enVars>>

\* main.py:158-160: the error of fetch_messages ends the run
MainFetchRaised ==
    /\ mn.pc = "fetch" /\ fx.ph = "raised"
    /\ fx' = FxIdle
    /\ Exit("error", FALSE, {})
    /\ UNCHANGED <<chan, calls, otherVars>>

\* (a bug that starts the extraction on the files downloaded so far)
MainDownloadedEarly ==
    /\ mn.pc = "download" /\ dl.ph \in {"check", "done"} /\ dl.out # <<>>
    /\ mn' = [mn EXCEPT !.pc = "extract", !.downloaded_files = dl.out]
    /\ px' = PxBegin(dl.out)
    /\ UNCHANGED <<chan, fx, runs, calls, disk, dlVars, dbVars, ps, enVars>>

\* main.py:109-121: no file: exit; else process_pdfs is called
MainDownloaded ==
    /\ mn.pc = "download" /\ dl.ph = "done"
    /\ dl' = DlIdle /\ dlcalls' = <<>>
    /\ LET requests == Cardinality({j \in DOMAIN dlcalls : dlcalls[j].requested})
           dropped == Len(dl.out) # Len(dl.entries)
       IN  IF dl.out = <<>>
           THEN /\ mn' = [MnIdle EXCEPT !.pc = ExitCode("no_files")]
                /\ runs' = Append(runs, [exit |-> ExitCode("no_files"),
                                         why |-> "no_files", full |-> FALSE,
                                         dropped |-> dropped, failed |-> FALSE,
                                         requests |-> requests, upserted |-> {},
                                         store0 |-> mn.store0])
                /\ UNCHANGED px
           ELSE /\ mn' = [mn EXCEPT !.pc = "extract", !.downloaded_files = dl.out,
                                    !.requests = requests, !.dropped = dropped]
                /\ px' = PxBegin(dl.out)
                /\ UNCHANGED runs
    /\ UNCHANGED <<chan, fx, calls, disk, dbVars, ps, enVars>>

\* main.py:121-129: process_files is called
MainExtracted ==
    /\ mn.pc = "extract" /\ px.ph = "done"
    /\ px' = PxIdle
    /\ mn' = [mn EXCEPT !.pc = "enrich", !.processed_files = px.out]
    /\ en' = EnBegin(px.out)
    /\ UNCHANGED <<chan, fx, runs, calls, disk, dlVars, dbVars, ps, em>>

\* main.py:129-137: bulk_insert_documents is called
MainEnriched ==
    /\ mn.pc = "enrich" /\ en.ph = "done"
    /\ en' = EnIdle
    /\ mn' = [mn EXCEPT !.pc = "persist", !.files_with_metadata = en.out]
    /\ ps' = PsBegin(en.out)
    /\ UNCHANGED <<chan, fx, runs, calls, disk, dlVars, dbVars, px, em>>

\* main.py:137-153: the count is logged, the statistics are read, the run ends
MainPersisted ==
    /\ mn.pc = "persist" /\ ps.ph = "done"
    /\ ps' = PsIdle
    /\ Exit("complete", ps.success_count # Len(ps.docs),
            {ps.docs[i].file_id : i \in {j \in DOMAIN ps.ids : ps.ids[j] # 0}})
    /\ UNCHANGED <<chan, fx, calls, disk, dlVars, dbVars, px, enVars>>

\* (a bug that runs the whole batch in one transaction, lost on interrupt)
InterruptRollsBack ==
    /\ mn.pc \in Stages \cup {"wait"}
    /\ Exit("interrupt", FALSE, {})
    /\ fx' = FxIdle /\ dl' = DlIdle /\ dlcalls' = <<>> /\ px' = PxIdle
    /\ en' = EnIdle /\ em' = EmIdle /\ ps' = PsIdle
    /\ store' = mn.store0
    /\ UNCHANGED <<chan, calls, disk, now, seq>>

\* main.py:155-157: KeyboardInterrupt, at any point of any stage
Interrupt ==
    /\ mn.pc \in Stages \cup {"wait"}
    /\ Exit("interrupt", FALSE, {})
    /\ fx' = FxIdle /\ dl' = DlIdle /\ dlcalls' = <<>> /\ px' = PxIdle
    /\ en' = EnIdle /\ em' = EmIdle /\ ps' = PsIdle
    /\ UNCHANGED <<chan, calls, disk, dbVars>>

Init ==
    /\ chan \in Channels
    /\ mn = MnIdle /\ fx = FxIdle /\ runs = <<>>
    /\ disk = <<>> /\ dl = DlIdle /\ dlcalls = <<>> /\ calls = 0
    /\ store = {} /\ now = 0 /\ seq = 1 /\ ps = PsIdle
    /\ px = PxIdle /\ en = EnIdle /\ em = EmIdle

Next ==
    \/ MainStart \/ MainWaited \/ MainFetched \/ MainFetchRaised \/ MainDownloaded
    \/ MainExtracted \/ MainEnriched \/ MainPersisted \/ Interrupt
    \/ FxStep /\ UNCHANGED <<chan, mn, runs, calls, otherVars>>
    \/ DlStep /\ UNCHANGED <<mainVars, calls, dbVars, ps, px, enVars>>
    \/ PxStep /\ UNCHANGED <<mainVars, calls, dlVars, dbVars, ps, enVars>>
    \/ EnStep /\ UNCHANGED <<mainVars, calls, disk, dlVars, dbVars, ps, px>>
    \/ PsStep /\ UNCHANGED <<mainVars, calls, disk, dlVars, px, enVars>>

Spec == Init /\ [][Next]_vars

(***************************************************************************)
(* The Downloader alone: download_all_pdfs is called on lists of messages, *)
(* a call may be interrupted anywhere, and the directory outlives the call.*)
(***************************************************************************)
DlInputs ==
    { <<WithPdfFiles(M1)>>, <<WithPdfFiles(M1), WithPdfFiles(M2)>>,
      <<WithPdfFiles(M2), WithPdfFiles(M1), WithPdfFiles(M4)>> }

DlCallAll ==
    /\ dl.ph \in {"idle", "done"} /\ calls < MaxCalls
    /\ \E msgs \in DlInputs : dl' = DlBegin(msgs)
    /\ calls' = calls + 1
    /\ UNCHANGED <<disk, dlcalls, dbVars, ps, px, enVars, mainVars>>

\* KeyboardInterrupt is no Exception: slack_client.py:175 does not catch it
DlInterrupt ==
    /\ dl.ph \in {"check", "write"}
    /\ dl' = DlIdle
    /\ UNCHANGED <<disk, dlcalls, calls, dbVars, ps, px, enVars, mainVars>>

InitDownload ==
    /\ disk = <<>> /\ dl = DlIdle /\ dlcalls = <<>> /\ calls = 0
    /\ store = {} /\ now = 0 /\ seq = 1 /\ ps = PsIdle
    /\ px = PxIdle /\ en = EnIdle /\ em = EmIdle
    /\ chan = <<>> /\ mn = MnIdle /\ fx = FxIdle /\ runs = <<>>

NextDownload ==
    \/ DlCallAll
    \/ DlStep /\ UNCHANGED <<calls, dbVars, ps, px, enVars, mainVars>>
    \/ DlInterrupt

SpecDownload == InitDownload /\ [][NextDownload]_vars

\* the files of the directory that hold (part of) the body of attachment f
BodyFiles(f) == {p \in DOMAIN disk : disk[p].kind = "body" /\ disk[p].of = f.id}

(* C1: once download_pdf has returned a path for an attachment, every later
   call with the same attachment and directory returns that same path and
   sends no request, and the directory holds exactly one file for the
   attachment, at {id}_{name}. *)
C1_IdempotentDownload ==
    \A i, j \in DOMAIN dlcalls :
        (i < j /\ dlcalls[i].file = dlcalls[j].file /\ dlcalls[i].returned)
        => /\ dlcalls[j].returned
           /\ ~dlcalls[j].requested
           /\ dlcalls[j].path = dlcalls[i].path
           /\ dlcalls[j].path = dlcalls[j].file.id \o <<"_">> \o dlcalls[j].file.name
           /\ BodyFiles(dlcalls[j].file) = {dlcalls[j].path}

C1_Witness ==
    \E i, j \in DOMAIN dlcalls :
        /\ i < j /\ dlcalls[i].file = dlcalls[j].file
        /\ dlcalls[i].returned /\ dlcalls[i].requested
        /\ dlcalls[j].returned /\ dlcalls[i].call < dlcalls[j].call

(* C7: in a run that follows an interrupted or failed one, every file of the
   Downloader's output holds the complete body of its attachment. *)
C7_PartialFileNeverReused ==
    calls >= 2 =>
        \A k \in DOMAIN dl.out :
            /\ Exists(dl.out[k].local_path)
            /\ disk[dl.out[k].local_path] =
                   [kind |-> "body", of |-> dl.out[k].file_id, n |-> dl.out[k].file_size]

\* the calls of download_pdf made by the current call of download_all_pdfs
DlLog == SelectSeq(dlcalls, LAMBDA c : c.call = calls)

\* the records of the entries whose download_pdf returned, in input order
RECURSIVE Returned(_, _)
Returned(entries, log) ==
    IF entries = <<>> \/ log = <<>> THEN <<>>
    ELSE (IF Head(log).returned
          THEN <<DownloadedFile(Head(entries), SafeFilename(Head(entries).file))>>
          ELSE <<>>)
         \o Returned(Tail(entries), Tail(log))

(* C10: download_all_pdfs calls download_pdf for every attachment of its
   input, whatever fails before it, and its output holds exactly the
   attachments whose download returned, each once, and none that failed. *)
C10_DownloadFailureIsolation ==
    dl.ph = "done" =>
        /\ Len(DlLog) = Len(dl.entries)
        /\ \A k \in DOMAIN DlLog : DlLog[k].file = dl.entries[k].file
        /\ dl.out = Returned(dl.entries, DlLog)

C10_Witness ==
    /\ dl.ph = "done" /\ Len(dl.entries) = 3
    /\ ~DlLog[1].returned /\ DlLog[2].returned /\ DlLog[2].requested
    /\ Len(dl.out) = 2

(***************************************************************************)
(* The Extractor alone: process_pdfs on lists of downloaded files, over    *)
(* the directories the Downloader can leave.                               *)
(***************************************************************************)
Downloaded(m, f) ==
    DownloadedFile([msg |-> WithPdfFiles(m), file |-> f], SafeFilename(f))

PxInputs ==
    { <<Downloaded(M1, F1)>>,
      <<Downloaded(M1, F1), Downloaded(M2, F2)>>,
      <<Downloaded(M2, F2), Downloaded(M1, F1), Downloaded(M4, F1)>>,
      <<Downloaded(M5, F4), Downloaded(M2, F2)>> }

PxDisks ==
    { WriteFile(WriteFile(WriteFile(<<>>, SafeFilename(F1), Body(F1, n)),
                          SafeFilename(F2), Body(F2, F2.size)),
                SafeFilename(F4), Body(F4, F4.size)) : n \in 1..F1.size }

PxCall ==
    /\ px.ph \in {"idle", "done"} /\ calls < MaxCalls
    /\ \E files \in PxInputs : px' = PxBegin(files)
    /\ calls' = calls + 1
    /\ UNCHANGED <<mainVars, disk, dlVars, dbVars, ps, enVars>>

InitExtract ==
    /\ disk \in PxDisks
    /\ dl = DlIdle /\ dlcalls = <<>> /\ calls = 0
    /\ store = {} /\ now = 0 /\ seq = 1 /\ ps = PsIdle
    /\ px = PxIdle /\ en = EnIdle /\ em = EmIdle
    /\ chan = <<>> /\ mn = MnIdle /\ fx = FxIdle /\ runs = <<>>

NextExtract ==
    \/ PxCall
    \/ PxStep /\ UNCHANGED <<mainVars, calls, dlVars, dbVars, ps, enVars>>

SpecExtract == InitExtract /\ [][NextExtract]_vars

\* record r cut down to the keys of record f
Restrict(r, f) == [k \in DOMAIN f |-> r[k]]

(* C3: whatever the order in which the workers finish, process_pdfs returns
   only when every task is done and every worker is idle, and its list has
   one record per input file, the i-th being the one extracted from the
   i-th input file. *)
C3_OrderPreserved ==
    px.ph = "done" =>
        /\ Len(px.out) = Len(px.files)
        /\ \A k \in 1..PoolSize : px.w[k].st = "idle"
        /\ \A i \in DOMAIN px.files :
              /\ Restrict(px.out[i], px.files[i]) = px.files[i]
              /\ px.out[i].text_file_path = WithSuffixTxt(px.files[i].local_path)
              /\ px.out[i].text_length = px.out[i].extracted_text.len
              /\ \/ px.out[i].extracted_text = EmptyText
                 \/ px.out[i].extracted_text.of = px.files[i].file_id
              /\ \E d \in Range(px.done) : d.idx = i /\ d.rec = px.out[i]

C3_Witness ==
    /\ px.ph = "done" /\ Len(px.files) = 3
    /\ px.done[1].idx = 2 /\ px.done[3].idx = 1
    /\ px.out[1].extracted_text # EmptyText

\* worker k has read its file in this step
ReadBy(k) == px.w[k].st = "open" /\ px'.w[k].st = "write"

\* worker k has returned its record in this step
ReturnedBy(k) == px.w[k].st = "write" /\ px'.w[k].st = "idle"

(* C22: a worker whose extraction fails goes on with the empty text, and one
   whose extraction works with the text of its file, the other workers and
   the results so far being left as they are; the worker returns a record
   with the text it has and that text's length whether or not the sidecar
   could be written; so a failed extraction gives a record with empty text
   and length 0, and process_pdfs returns the record of every task. *)
C22_ExtractionDegrades ==
    /\ [][\A k \in DOMAIN px.w : ReadBy(k) =>
            /\ px'.w[k].text =
                  IF px'.w[k].xfail THEN EmptyText
                  ELSE TextOf(disk[px.files[px.w[k].idx].local_path])
            /\ \A j \in DOMAIN px.w \ {k} : px'.w[j] = px.w[j]
            /\ px'.done = px.done]_vars
    /\ [][\A k \in DOMAIN px.w : ReturnedBy(k) =>
            /\ px'.done = Append(px.done, Last(px'.done))
            /\ Last(px'.done).idx = px.w[k].idx
            /\ Last(px'.done).xfail = px.w[k].xfail
            /\ Last(px'.done).rec.extracted_text = px.w[k].text
            /\ Last(px'.done).rec.text_length = px.w[k].text.len
            /\ \A j \in DOMAIN px.w \ {k} : px'.w[j] = px.w[j]]_vars
    /\ [](\A d \in Range(px.done) :
            d.xfail => (d.rec.extracted_text = EmptyText /\ d.rec.text_length = 0))
    /\ [](px.ph = "done" =>
            /\ Len(px.out) = Len(px.files)
            /\ \A d \in Range(px.done) : px.out[d.idx] = d.rec)

C22_Witness ==
    /\ px.ph = "done" /\ Len(px.files) = 3
    /\ \E d1, d2 \in Range(px.done) :
          /\ d1.xfail /\ px.out[d1.idx].text_length = 0
          /\ d2.sfail /\ ~d2.xfail /\ px.out[d2.idx].text_length > 0

(* C27: the sidecar of a downloaded file is another file than the download
   itself and than every other download, so that when process_pdfs is done
   every downloaded file still holds the body the Downloader wrote. *)
C27_SidecarSparesDownloads ==
    px.ph \in {"run", "done"} =>
        \A i \in DOMAIN px.files :
            /\ \A j \in DOMAIN px.files :
                  WithSuffixTxt(px.files[i].local_path) # px.files[j].local_path
            /\ disk[px.files[i].local_path].kind = "body"

(***************************************************************************)
(* The Enricher alone: process_files on lists of extracted documents, and  *)
(* extract_metadata called with a max_retries of its caller's choice.      *)
(***************************************************************************)
Extracted(m, f, n) ==
    ProcessedFile(Downloaded(m, f), TextOf(Body(f, n)))

EnInputs ==
    { <<Extracted(M1, F1, 2)>>,
      <<Extracted(M1, F1, 2), Extracted(M2, F2, 0), Extracted(M4, F1, 1)>>,
      <<Downloaded(M2, F2), Extracted(M1, F1, 2)>> }

EnCall ==
    /\ en.ph \in {"idle", "done"} /\ em.ph = "idle" /\ calls < MaxCalls
    /\ \E files \in EnInputs : en' = EnBegin(files)
    /\ calls' = calls + 1
    /\ UNCHANGED <<mainVars, disk, dlVars, dbVars, ps, px, em>>

EmCall ==
    /\ en.ph \in {"idle", "done"} /\ em.ph = "idle" /\ calls < MaxCalls
    /\ \E m \in 0..MaxRetriesArg : em' = EmBegin(TextOf(Body(F1, 2)), m)
    /\ calls' = calls + 1
    /\ UNCHANGED <<mainVars, disk, dlVars, dbVars, ps, px, en>>

\* the caller of extract_metadata has its result
EmTaken ==
    /\ en.ph \in {"idle", "done"} /\ em.ph = "ret"
    /\ em' = EmIdle
    /\ UNCHANGED <<mainVars, calls, disk, dlVars, dbVars, ps, px, en>>

InitEnrich ==
    /\ disk = <<>>
    /\ dl = DlIdle /\ dlcalls = <<>> /\ calls = 0
    /\ store = {} /\ now = 0 /\ seq = 1 /\ ps = PsIdle
    /\ px = PxIdle /\ en = EnIdle /\ em = EmIdle
    /\ chan = <<>> /\ mn = MnIdle /\ fx = FxIdle /\ runs = <<>>

NextEnrich ==
    \/ EnCall \/ EmCall \/ EmTaken
    \/ EnStep /\ UNCHANGED <<mainVars, calls, disk, dlVars, dbVars, ps, px>>

SpecEnrich == InitEnrich /\ [][NextEnrich]_vars

\* process_files has one record per document handled so far, in input order
EnOnePerInput ==
    en.ph \in {"loop", "wait", "done"} =>
        /\ Len(en.out) = en.i - 1
        /\ en.ph = "done" => Len(en.out) = Len(en.files)
        /\ \A j \in DOMAIN en.out :
              /\ Restrict(en.out[j], en.files[j]) = en.files[j]
              /\ DOMAIN en.out[j] = DOMAIN en.files[j] \cup {"title", "publication_date"}

\* what extract_metadata returns for the outcome of its last call
EmResultByOutcome ==
    (em.ph = "ret" /\ em.hist # <<>>) =>
        /\ Last(em.hist) \in {"ok", "rate_limit", "api_error", "malformed", "unexpected"}
        /\ Last(em.hist) = "ok" => em.result \in Responses
        /\ Last(em.hist) # "ok" => em.result = NoMetadata

\* a step of process_files adds the current document with the metadata just
\* obtained for it, and changes no record already emitted
EnAppendsCurrent ==
    (en' # en /\ en.ph \in {"loop", "wait"} /\ en'.ph # "done") =>
        \/ en'.ph = "wait" /\ en'.out = en.out
        \/ /\ en'.ph = "loop" /\ en'.i = en.i + 1
           /\ en'.out = Append(en.out,
                 Merge(en.files[en.i],
                       IF en.ph = "wait" THEN em.result ELSE NoMetadata))

(* C4: whatever each inference call does, process_files emits exactly one
   record per input, in input order, and never stops early; a document whose
   call ends in a malformed response (or any failure) gets null title and
   date, and the records of the other documents are what their own calls
   returned. *)
C4_EnricherIsolation ==
    [](EnOnePerInput /\ EmResultByOutcome) /\ [][EnAppendsCurrent]_vars

C4_Witness ==
    /\ en.ph = "done" /\ Len(en.out) = 3
    /\ en.out[1].title = "T" /\ en.out[3].title = NULL

(* C5: when every attempt of extract_metadata ends in a rate-limit error,
   it makes exactly max_retries inference calls and returns null title and
   date; the attempt counter stays below max_retries while a call is due,
   so the loop ends. *)
C5_BackoffTermination ==
    /\ em.ph = "call" => (em.attempt < em.max_retries /\ Len(em.hist) = em.attempt)
    /\ (em.ph = "ret" /\ \A k \in DOMAIN em.hist : em.hist[k] = "rate_limit")
          => (Len(em.hist) = em.max_retries /\ em.result = NoMetadata)

C5_Witness ==
    /\ em.ph = "ret" /\ em.max_retries = MaxRetriesArg
    /\ Len(em.hist) = MaxRetriesArg
    /\ \A k \in DOMAIN em.hist : em.hist[k] = "rate_limit"

\* the document process_files is at has no text
NoTextDue ==
    /\ en.ph = "loop" /\ en.i <= Len(en.files)
    /\ ("extracted_text" \notin DOMAIN en.files[en.i]
          \/ en.files[en.i].extracted_text.len = 0)

\* the document process_files is at has a text
TextDue ==
    /\ en.ph = "loop" /\ en.i <= Len(en.files)
    /\ "extracted_text" \in DOMAIN en.files[en.i]
    /\ en.files[en.i].extracted_text.len > 0

(* C21: for a document whose text is empty or absent, process_files makes no
   inference call and emits the document with null title and date; for a
   document with a text, extract_metadata is called, and what it sends is
   the text if it has at most 3000 characters and its first 3000 characters
   otherwise. *)
C21_EmptyTextSkipsCall ==
    /\ [][(NoTextDue /\ en' # en) =>
            /\ em' = em /\ em.ph = "idle"
            /\ en'.ph = "loop" /\ en'.i = en.i + 1
            /\ Last(en'.out).title = NULL
            /\ Last(en'.out).publication_date = NULL]_vars
    /\ [][(TextDue /\ en' # en) =>
            /\ en'.ph = "wait" /\ en'.out = en.out
            /\ em.ph = "idle" /\ em'.ph = "call"
            /\ em'.text.of = en.files[en.i].extracted_text.of
            /\ em'.text.len <= 3000
            /\ em'.text.len =
                  IF en.files[en.i].extracted_text.len <= 3000
                  THEN en.files[en.i].extracted_text.len ELSE 3000]_vars
    /\ [](en.ph = "wait" => em.ph \in {"call", "ret"})

C21_Witness ==
    /\ en.ph = "wait" /\ en.i = 2 /\ em.ph = "ret" /\ em.hist # <<>>
    /\ "extracted_text" \notin DOMAIN en.files[1]
    /\ en.out[1].title = NULL
    /\ en.files[2].extracted_text.len = 4000 /\ em.text.len = 3000

\* this step is an inference call of extract_metadata coming to its end
InferenceCall == Len(em'.hist) = Len(em.hist) + 1

(* C23: process_files handles one document at a time, in input order: an
   inference call is made only while process_files waits for the document it
   is at, for the text of that document, and the document changes only when
   extract_metadata has returned, to the next one; the fixed delay follows
   every document but the last, so a call on n documents sleeps n - 1
   times. *)
C23_SequentialEnrichment ==
    /\ [](en.ph \in {"loop", "wait"} =>
            /\ en.ph = "loop" => em.ph = "idle"
            /\ en.ph = "wait" => em.text = Truncated(GetText(en.files[en.i]))
            /\ Len(en.out) = en.i - 1
            /\ en.delays = IF en.i <= Len(en.files) THEN en.i - 1
                            ELSE Len(en.files) - 1)
    /\ [][(InferenceCall /\ en.ph # "idle" /\ en.ph # "done") =>
            (en.ph = "wait" /\ en' = en)]_vars
    /\ [][(en.ph \in {"loop", "wait"} /\ en'.i # en.i) =>
            /\ en'.i = en.i + 1
            /\ em.ph \in {"idle", "ret"} /\ em'.ph = "idle"]_vars
    /\ [](en.ph = "done" => en.delays = Len(en.files) - 1)

C23_Witness ==
    /\ en.ph = "done" /\ Len(en.files) = 3 /\ en.delays = 2
    /\ en.out[1].title = "T" /\ en.out[3].title = "T"

Retryable == {"rate_limit", "api_error"}

(* C18: the k-th wait of a call of extract_metadata follows its k-th attempt
   (0-based attempt k - 1), which is not the last one; it lasts 2^(k-1)
   seconds after a rate-limit error and 2 seconds after another error of the
   service; there is a wait before every further attempt and none after the
   last, so a call whose attempts all fail in these ways waits
   max_retries - 1 times. *)
C18_RetryDelays ==
    /\ Len(em.waits) <= Len(em.hist)
    /\ \A k \in DOMAIN em.waits :
          /\ k < em.max_retries
          /\ em.hist[k] \in Retryable
          /\ em.hist[k] = "rate_limit" => em.waits[k] = 2 ^ (k - 1)
          /\ em.hist[k] = "api_error" => em.waits[k] = 2
    /\ em.ph = "call" => Len(em.waits) = Len(em.hist)
    /\ em.ph = "ret" => Len(em.waits) >= Len(em.hist) - 1
    /\ (em.ph = "ret" /\ em.hist # <<>>
          /\ \A k \in DOMAIN em.hist : em.hist[k] \in Retryable)
          => Len(em.waits) = em.max_retries - 1

C18_Witness ==
    /\ em.ph = "ret" /\ em.max_retries = 4
    /\ em.hist = <<"rate_limit", "api_error", "rate_limit", "api_error">>
    /\ em.waits = <<1, 2, 4>>

(* C19: whatever mix of rate-limit and other service errors the calls end
   in, extract_metadata makes at most max_retries inference calls; a
   successful response ends the call, which returns its title and date; a
   call without one returns nulls; with max_retries = 0 there is no inference
   call and the result is nulls. *)
C19_AttemptBound ==
    /\ Len(em.hist) <= em.max_retries
    /\ em.ph = "call" => Len(em.hist) < em.max_retries
    /\ \A k \in DOMAIN em.hist :
          em.hist[k] = "ok" => (k = Len(em.hist) /\ em.ph = "ret")
    /\ em.ph = "ret" =>
          IF em.hist # <<>> /\ Last(em.hist) = "ok"
          THEN em.result \in Responses
          ELSE em.result = [title |-> NULL, publication_date |-> NULL]
    /\ (em.ph # "idle" /\ em.max_retries = 0) => (em.ph = "ret" /\ em.hist = <<>>)

C19_Witness ==
    /\ em.ph = "ret" /\ em.max_retries = 3
    /\ em.hist = <<"api_error", "rate_limit", "ok">>
    /\ em.result.title = "T"

(* C20: an inference call that ends in a malformed response or in an
   unexpected error is the last of its extract_metadata call, whatever
   attempts remain: no wait follows it, and the call returns nulls. *)
C20_NoRetryOnMalformed ==
    /\ [](\A k \in DOMAIN em.hist :
            em.hist[k] \in {"malformed", "unexpected"} =>
                /\ k = Len(em.hist) /\ em.ph = "ret"
                /\ em.result = [title |-> NULL, publication_date |-> NULL])
    /\ [][(Len(em'.hist) = Len(em.hist) + 1
            /\ Last(em'.hist) \in {"malformed", "unexpected"})
          => (em'.waits = em.waits /\ em'.ph = "ret")]_vars

C20_Witness ==
    /\ em.ph = "ret" /\ em.max_retries = 4
    /\ em.hist = <<"rate_limit", "malformed">>
    /\ em.waits = <<1>>

(***************************************************************************)
(* The Persister alone: bulk_insert_documents on batches of enriched       *)
(* documents; the table outlives the call.                                 *)
(***************************************************************************)
Enriched(m, f, n, metadata) == Merge(Extracted(m, f, n), metadata)

PsInputs ==
    { <<Enriched(M1, F1, 2, [title |-> "T", publication_date |-> "2024-01-01"])>>,
      <<Enriched(M1, F1, 2, NoMetadata),
        Enriched(M2, F2, 1, [title |-> "T", publication_date |-> "soon"])>>,
      <<Enriched(M2, F2, 1, NoMetadata),
        Enriched(M1, F1, 2, [title |-> "T", publication_date |-> "2024-01-01"]),
        Enriched(M4, F1, 1, NoMetadata)>> }

PsCall ==
    /\ ps.ph \in {"idle", "done"} /\ calls < MaxCalls
    /\ \E docs \in PsInputs : ps' = PsBegin(docs)
    /\ calls' = calls + 1
    /\ UNCHANGED <<mainVars, disk, dlVars, dbVars, px, enVars>>

InitStore ==
    /\ disk = <<>>
    /\ dl = DlIdle /\ dlcalls = <<>> /\ calls = 0
    /\ store = {} /\ now = 0 /\ seq = 1 /\ ps = PsIdle
    /\ px = PxIdle /\ en = EnIdle /\ em = EmIdle
    /\ chan = <<>> /\ mn = MnIdle /\ fx = FxIdle /\ runs = <<>>

NextStore ==
    \/ PsCall
    \/ PsStep /\ UNCHANGED <<mainVars, calls, disk, dlVars, px, enVars>>

SpecStore == InitStore /\ [][NextStore]_vars

RowsOf(rows, file_id) == {r \in rows : r.file_id = file_id}

\* this step is an insert_document that returned an id
UpsertReturned == ps'.i = ps.i + 1 /\ Last(ps'.ids) # 0

(* C2: an insert_document that succeeds leaves exactly one row for its
   file_id; when a row for that file_id was there already (a second upsert),
   the row keeps its id and its processed_at and its updated_at moves
   forward. *)
C2_IdempotentPersistence ==
    [][UpsertReturned =>
          /\ Cardinality(RowsOf(store', PsDoc.file_id)) = 1
          /\ \A r \in RowsOf(store, PsDoc.file_id) :
                \E r2 \in RowsOf(store', PsDoc.file_id) :
                    /\ r2.id = r.id
                    /\ r2.processed_at = r.processed_at
                    /\ r2.updated_at > r.updated_at
                    /\ r2.title = DocData(PsDoc).title]_vars

C2_Witness ==
    \E r \in store :
        /\ r.updated_at > r.processed_at
        /\ \E j \in DOMAIN ps.ids : ps.ids[j] = r.id /\ ps.docs[j].file_id = r.file_id

\* this step is an insert_document that returned None
UpsertFailed == ps'.i > ps.i /\ Last(ps'.ids) = 0

(* C11: bulk_insert_documents calls insert_document for every document of
   its input and returns the number of those calls that returned an id; a
   call that fails adds nothing to the count, leaves the table as it was and
   is followed by the calls for the remaining documents. *)
C11_PersisterCount ==
    /\ [](ps.ph = "done" =>
            /\ Len(ps.ids) = Len(ps.docs)
            /\ ps.success_count = Cardinality({j \in DOMAIN ps.ids : ps.ids[j] # 0}))
    /\ [][UpsertFailed =>
            /\ store' = store
            /\ ps'.success_count = ps.success_count
            /\ ps'.ph = "loop" /\ ps'.i = ps.i + 1]_vars
    /\ [][UpsertReturned => ps'.success_count = ps.success_count + 1]_vars

C11_Witness ==
    /\ ps.ph = "done" /\ Len(ps.docs) = 3
    /\ ps.ids[1] = 0 /\ ps.ids[2] # 0 /\ ps.ids[3] # 0
    /\ ps.success_count = 2

FileIds(rows) == {r.file_id : r \in rows}

(* C12: the table never holds two rows with one file_id; an upsert that
   succeeds leaves a row for its file_id; no step removes a row or lowers
   the number of rows.  So every file_id upserted successfully has exactly
   one row ever after, whatever batches are given and repeated. *)
C12_StoreUniqueness ==
    /\ [](\A r1, r2 \in store : r1.file_id = r2.file_id => r1 = r2)
    /\ [][UpsertReturned => PsDoc.file_id \in FileIds(store')]_vars
    /\ [][/\ Cardinality(store') >= Cardinality(store)
          /\ FileIds(store) \subseteq FileIds(store')]_vars

C12_Witness ==
    /\ ps.ph = "done" /\ calls = 2 /\ Len(ps.docs) = 3
    /\ ps.docs[2].file_id = ps.docs[3].file_id
    /\ ps.ids[2] # 0 /\ ps.ids[3] = ps.ids[2]
    /\ \E r \in store : r.id = ps.ids[2] /\ r.processed_at < now - 2
    /\ Cardinality(store) = 2

(***************************************************************************)
(* Properties of main.                                                     *)
(***************************************************************************)
Active ==
    (IF fx.ph # "idle" THEN {"fetch"} ELSE {})
    \cup (IF dl.ph # "idle" THEN {"download"} ELSE {})
    \cup (IF px.ph # "idle" THEN {"extract"} ELSE {})
    \cup (IF en.ph # "idle" \/ em.ph # "idle" THEN {"enrich"} ELSE {})
    \cup (IF ps.ph # "idle" THEN {"persist"} ELSE {})

\* only the stage main is in is active, working on what main handed it
OneStageActive ==
    /\ Active \subseteq {mn.pc}
    /\ mn.pc \in Stages => Active = {mn.pc}
    /\ dl.ph # "idle" => dl.entries = Entries(mn.messages)
    /\ px.ph # "idle" => px.files = mn.downloaded_files
    /\ en.ph # "idle" => en.files = mn.processed_files
    /\ ps.ph # "idle" => ps.docs = mn.files_with_metadata

\* main moves to the next stage only from a stage that has returned, with
\* the list that stage returned
StageOrder ==
    mn'.pc # mn.pc =>
        \/ mn.pc \in {"idle", "exit0", "exit1"} /\ mn'.pc = "wait" /\ Active' = {}
        \/ mn.pc \in {"idle", "exit0"} /\ mn'.pc = "exit1" /\ Active' = {}
        \/ mn.pc = "wait" /\ mn'.pc = "exit1" /\ Active' = {}
        \/ mn.pc = "wait" /\ mn'.pc = "fetch"
        \/ mn.pc \in Stages /\ mn'.pc = "exit1"
        \/ mn.pc = "fetch" /\ fx.ph = "done" /\ fx.out = <<>> /\ mn'.pc = "exit0"
        \/ mn.pc = "fetch" /\ fx.ph = "done" /\ mn'.pc = "download"
              /\ mn'.messages = fx.out /\ fx.out # <<>>
        \/ mn.pc = "download" /\ dl.ph = "done" /\ dl.out = <<>> /\ mn'.pc = "exit0"
        \/ mn.pc = "download" /\ dl.ph = "done" /\ mn'.pc = "extract"
              /\ mn'.downloaded_files = dl.out /\ dl.i > Len(dl.entries)
        \/ mn.pc = "extract" /\ px.ph = "done" /\ mn'.pc = "enrich"
              /\ mn'.processed_files = px.out /\ Len(px.out) = Len(px.files)
        \/ mn.pc = "enrich" /\ en.ph = "done" /\ mn'.pc = "persist"
              /\ mn'.files_with_metadata = en.out /\ Len(en.out) = Len(en.files)
        \/ mn.pc = "persist" /\ ps.ph = "done" /\ mn'.pc = "exit0"
              /\ ps.i > Len(ps.docs)

(* C6: in every run the stages follow each other as fetch, download,
   extract, enrich, persist; a stage starts only when the one before it has
   returned its whole list, which is what it is given; never are two stages
   active together. *)
C6_StageBarrier == []OneStageActive /\ [][StageOrder]_vars

C6_Witness ==
    /\ mn.pc = "persist" /\ ps.ph = "loop" /\ ps.i = 2 /\ Len(ps.docs) = 2

\* a step that ends a run by an interrupt, and the start of the next run
InterruptStep ==
    mn.pc \in Stages /\ mn'.pc = "exit1" /\ ~(mn.pc = "fetch" /\ fx.ph = "raised")

\* every upsert that has returned in this run is in the table
UpsertsCommitted ==
    \A j \in DOMAIN ps.ids :
        ps.ids[j] # 0 =>
            \E r \in store : r.id = ps.ids[j] /\ r.file_id = ps.docs[j].file_id

\* every download that has returned in this run left the whole body on disk
DownloadsOnDisk ==
    \A j \in DOMAIN dlcalls :
        (dlcalls[j].returned /\ dlcalls[j].requested)
            => Complete(dlcalls[j].path, dlcalls[j].file)

\* no step takes a file or a row away
NothingRemoved ==
    /\ DOMAIN disk \subseteq DOMAIN disk'
    /\ \A r \in store : \E r2 \in store' : r2.id = r.id /\ r2.file_id = r.file_id

(* C8: an interrupt ends the run and undoes nothing: each upsert that has
   returned is in the table and each finished download is on disk when the
   interrupt comes, no step removes a file or a row, and the interrupt, and
   the start of the next run, leave every file and every row as they were. *)
C8_InterruptKeepsWork ==
    /\ [](UpsertsCommitted /\ DownloadsOnDisk)
    /\ [][NothingRemoved]_vars
    /\ [][(InterruptStep \/ mn'.pc = "fetch") => (disk' = disk /\ store' = store)]_vars

C8_Witness ==
    /\ Len(runs) = 2 /\ runs[1].exit = "exit1" /\ runs[2].exit = "exit1"
    /\ runs[2].store0 # {} /\ store # runs[2].store0
    /\ Cardinality(DOMAIN disk) > 2

EndedWell(k) == Len(runs) >= k /\ runs[k].exit = "exit0"

\* the rows of the table before the second run that the run updated
Advanced(rows) ==
    \A r \in rows : \E r2 \in store : r2.file_id = r.file_id /\ r2.updated_at > r.updated_at

(* C9 as stated: after a first run that completed, a second complete run
   leaves the row count as it was, moves updated_at of every row forward
   and sends no download request. *)
C9_SecondRunAsStated ==
    (EndedWell(1) /\ EndedWell(2)) =>
        /\ Cardinality(store) = Cardinality(runs[2].store0)
        /\ Advanced(runs[2].store0)
        /\ runs[2].requests = 0

(* C9, amended: after a first complete run in which every attachment was
   downloaded and every upsert succeeded, a second complete run leaves the
   row count as it was, sends no download request, and moves forward
   updated_at of every row whose upsert succeeds in it. *)
C9_SecondRun ==
    (EndedWell(1) /\ EndedWell(2) /\ ~runs[1].dropped /\ ~runs[1].failed) =>
        /\ Cardinality(store) = Cardinality(runs[2].store0)
        /\ {r.file_id : r \in store} = {r.file_id : r \in runs[2].store0}
        /\ Advanced({r \in runs[2].store0 : r.file_id \in runs[2].upserted})
        /\ runs[2].requests = 0

C9_Witness ==
    /\ EndedWell(1) /\ EndedWell(2) /\ ~runs[1].dropped /\ ~runs[1].failed
    /\ runs[1].full /\ runs[2].full
    /\ Cardinality(runs[2].upserted) = 2

\* the workers of the pool that are at work on a file
Busy == {k \in DOMAIN px.w : px.w[k].st # "idle"}

(* C17: in a pipeline run the pool of process_pdfs has
   min(MAX_WORKERS, cpu_count()) workers, so that never more extraction
   workers run at once than MAX_WORKERS, nor than the machine has CPUs. *)
C17_PoolSizeIsMin ==
    mn.pc = "extract" =>
        /\ Len(px.w) = Min(ConfigMaxWorkers, CpuCount)
        /\ Cardinality(Busy) <= ConfigMaxWorkers
        /\ Cardinality(Busy) <= CpuCount

(* C24: no two workers of the pool are at work on the same file at the same
   time, and no two of them have the same sidecar to write, whatever list
   the Downloader has produced. *)
C24_WorkersShareNoFile ==
    \A k1, k2 \in Busy :
        k1 # k2 =>
            /\ px.files[px.w[k1].idx].local_path # px.files[px.w[k2].idx].local_path
            /\ WithSuffixTxt(px.files[px.w[k1].idx].local_path)
                  # WithSuffixTxt(px.files[px.w[k2].idx].local_path)

(* C13: a run that completes, or that ends early because the fetch gave no
   message or the download no file, leaves exit status 0; a run ended by an
   invalid configuration, by a database that answered none of the probes, or
   by an error raised to main, leaves a status other than 0. *)
C13_ExitCodes ==
    /\ \A k \in DOMAIN runs :
          /\ runs[k].why \in {"complete", "no_messages", "no_files"}
                => runs[k].exit = "exit0"
          /\ runs[k].why \in {"config", "database", "error"}
                => runs[k].exit = "exit1"
    /\ mn.pc \in {"exit0", "exit1"} => (runs # <<>> /\ mn.pc = Last(runs).exit)
    /\ mn.pc \in Stages => Len(runs) = calls - 1

C13_Witness ==
    /\ Len(runs) = 2 /\ mn.pc = "exit0"
    /\ runs[1].why = "database" /\ runs[2].why = "no_files"

(***************************************************************************)
(* The Fetcher alone: fetch_messages called with names and ids, on         *)
(* channels of one to three pages.                                         *)
(***************************************************************************)
FxChannels ==
    Channels \cup
    { <<Page(<<M1>>, FALSE, 2), Page(<<M2>>, FALSE, 0)>>,
      <<Page(<<M1>>, TRUE, 2), Page(<<M3>>, TRUE, 3), Page(<<M2, M4>>, FALSE, 0)>> }

\* the channel argument: listed names, ids, and names the workspace has not
FxArgs ==
    { SlackChannel, <<"g", "e", "n">>, <<"d", "e", "v">>, <<"C", "o", "n">>,
      <<"C", "1">>, <<"C", "9">> }

FxCall ==
    /\ fx.ph \in {"idle", "done", "raised"} /\ calls < MaxCalls
    /\ \E channel \in FxArgs : fx' = FxBegin(channel)
    /\ calls' = calls + 1
    /\ UNCHANGED <<chan, mn, runs, otherVars>>

InitFetch ==
    /\ chan \in FxChannels
    /\ mn = MnIdle /\ fx = FxIdle /\ runs = <<>>
    /\ disk = <<>> /\ dl = DlIdle /\ dlcalls = <<>> /\ calls = 0
    /\ store = {} /\ now = 0 /\ seq = 1 /\ ps = PsIdle
    /\ px = PxIdle /\ en = EnIdle /\ em = EmIdle

NextFetch ==
    \/ FxCall
    \/ FxStep /\ UNCHANGED <<chan, mn, runs, calls, otherVars>>

SpecFetch == InitFetch /\ [][NextFetch]_vars

\* the page a request is answered with
PageOf(req) == History(req.channel)[IF req.cursor = 0 THEN 1 ELSE req.cursor]

\* the response says that a page follows, and where
MoreAfter(req) == PageOf(req).has_more /\ PageOf(req).next_cursor # 0

\* the messages of the pages the requests were answered with
RECURSIVE MessagesOf(_)
MessagesOf(reqs) ==
    IF reqs = <<>> THEN <<>>
    ELSE PageOf(Head(reqs)).messages \o MessagesOf(Tail(reqs))

HasPdf(m) == "files" \in DOMAIN m /\ \E i \in DOMAIN m.files : m.files[i].mimetype = PDF

(* C14: the first request carries no cursor and every later one the cursor
   of the response before it; a request follows a response only if that
   response has has_more and a cursor; fetch_messages returns at the first
   response that lacks either, with the messages of the fetched pages that
   carry a PDF, in order and once each, pdf_files holding the PDF
   attachments of the message and nothing else. *)
C14_PaginationAndFilter ==
    LET n == Len(fx.reqs)
        withPdf == SelectSeq(MessagesOf(fx.reqs), HasPdf)
    IN  /\ \A k \in 1..n :
              /\ fx.reqs[k].cursor =
                    IF k = 1 THEN 0 ELSE PageOf(fx.reqs[k - 1]).next_cursor
              /\ k < n => (fx.reqs[k].ok /\ MoreAfter(fx.reqs[k]))
        /\ (fx.ph = "page" /\ n > 0) => MoreAfter(fx.reqs[n])
        /\ fx.ph = "done" =>
              /\ n > 0 /\ fx.reqs[n].ok /\ ~MoreAfter(fx.reqs[n])
              /\ Len(fx.out) = Len(withPdf)
              /\ \A i \in DOMAIN fx.out :
                    /\ Restrict(fx.out[i], withPdf[i]) = withPdf[i]
                    /\ DOMAIN fx.out[i] = DOMAIN withPdf[i] \cup {"pdf_files"}
                    /\ fx.out[i].pdf_files =
                          SelectSeq(withPdf[i].files, LAMBDA f : f.mimetype = PDF)
                    /\ \A j \in DOMAIN fx.out : fx.out[j] = fx.out[i] => j = i

C14_Witness ==
    /\ fx.ph = "done" /\ Len(fx.reqs) = 3 /\ fx.reqs[3].cursor = 3
    /\ Len(fx.out) = 3 /\ Len(fx.out[1].pdf_files) = 1
    /\ Len(fx.out[1].files) = 2

(* C15: when a request for a page fails, that request is the last of the
   call, the call ends by raising the error, and the caller gets no list:
   a call that returns a list had every one of its requests answered. *)
C15_FetchAllOrNothing ==
    /\ \A k \in DOMAIN fx.reqs :
          ~fx.reqs[k].ok =>
              /\ k = Len(fx.reqs)
              /\ fx.ph = "raised" /\ fx.err = "SlackApiError" /\ fx.out = <<>>
    /\ fx.ph = "done" => \A k \in DOMAIN fx.reqs : fx.reqs[k].ok
    /\ fx.ph = "raised" => fx.out = <<>>

C15_Witness ==
    /\ fx.ph = "raised" /\ Len(fx.reqs) = 3
    /\ fx.reqs[1].ok /\ fx.reqs[2].ok /\ ~fx.reqs[3].ok
    /\ PdfMessages(PageOf(fx.reqs[1]).messages) # <<>>

\* a native channel id: C and digits
IsChannelId(channel) ==
    /\ StartsWithC(channel)
    /\ \A i \in 2..Len(channel) :
          channel[i] \in {"0", "1", "2", "3", "4", "5", "6", "7", "8", "9"}

\* the ids of the listed channels of that name
NamedIds(name) == {Listed[i].id : i \in {j \in DOMAIN Listed : Listed[j].name = name}}

(* C16: a channel argument that is a name is resolved before the history is
   requested: every request is made for the id of the listed channel of
   that name, and when no listed channel has the name the call raises
   without any request; an argument that is an id is requested as it is. *)
C16_ChannelResolved ==
    /\ IsChannelId(fx.channel) =>
          \A k \in DOMAIN fx.reqs : fx.reqs[k].channel = fx.channel
    /\ (~IsChannelId(fx.channel) /\ fx.ph # "idle") =>
          /\ \A k \in DOMAIN fx.reqs : fx.reqs[k].channel \in NamedIds(fx.channel)
          /\ (NamedIds(fx.channel) = {} /\ fx.ph # "resolve") =>
                (fx.ph = "raised" /\ fx.reqs = <<>>)

(***************************************************************************)
(* wait_for_database alone: it is called with several values of            *)
(* max_attempts, and each probe may be answered or fail.                   *)
(***************************************************************************)
WfMaxAttempts == {0, 1, 2, MaxAttempts}

\* main.py:26: wait_for_database(db_manager, max_attempts) is called
WfCall ==
    /\ mn.pc = "idle" /\ mn.wait.ph \in {"idle", "ret"} /\ calls < MaxCalls
    /\ calls' = calls + 1
    /\ \E max_attempts \in WfMaxAttempts :
          mn' = [mn EXCEPT !.wait = WfBegin(max_attempts)]
    /\ UNCHANGED <<chan, fx, runs, otherVars>>

InitProbe ==
    /\ chan \in Channels
    /\ mn = MnIdle /\ fx = FxIdle /\ runs = <<>>
    /\ disk = <<>> /\ dl = DlIdle /\ dlcalls = <<>> /\ calls = 0
    /\ store = {} /\ now = 0 /\ seq = 1 /\ ps = PsIdle
    /\ px = PxIdle /\ en = EnIdle /\ em = EmIdle

NextProbe == WfCall \/ WfStep

SpecProbe == InitProbe /\ [][NextProbe]_vars

\* the number of the probe that was answered, past the end if none was
FirstOk(probes) ==
    IF probes # <<>> /\ Last(probes) THEN Len(probes) ELSE MaxAttempts + 1

\* C25: wait_for_database makes at most max_attempts probes; an answered
\* probe is its last one and it returns True on it; it returns False exactly
\* when max_attempts probes were made and all failed; it sleeps the fixed
\* delay once after each failed probe but the last of max_attempts, and
\* nowhere else; it has no outcome but a return.  With the default
\* max_attempts the outcome is the one main's startup relies on.
C25_ReadinessProbing ==
    LET w == mn.wait
        n == Len(w.probes)
    IN  /\ w.ph \in {"idle", "probe", "ret"}
        /\ n <= w.max_attempts
        /\ \A i \in 1..n : w.probes[i] => i = n /\ w.ph = "ret" /\ w.result
        /\ w.ph = "probe" => n < w.max_attempts /\ Len(w.sleeps) = n
        /\ w.ph = "ret" =>
              /\ ~w.result <=> (n = w.max_attempts /\ \A i \in 1..n : ~w.probes[i])
              /\ w.result => Len(w.sleeps) = n - 1
              /\ ~w.result /\ n > 0 => Len(w.sleeps) = n - 1
              /\ n = 0 => w.sleeps = <<>>
        /\ \A j \in 1..Len(w.sleeps) :
              w.sleeps[j] = j /\ j < w.max_attempts /\ j <= n /\ ~w.probes[j]
        /\ w.slept = ProbeDelay * Len(w.sleeps)
        /\ (w.ph = "ret" /\ w.max_attempts = MaxAttempts) =>
              WaitForDatabase(FirstOk(w.probes)) =
                  [ready |-> w.result, probes |-> n, slept |-> w.slept]

\* every probe of the default thirty failed: False, after twenty-nine sleeps
C25_Witness ==
    /\ mn.wait.ph = "ret" /\ mn.wait.max_attempts = MaxAttempts
    /\ Len(mn.wait.probes) = MaxAttempts /\ ~mn.wait.result
    /\ Len(mn.wait.sleeps) = MaxAttempts - 1

\* a step that ends a run for the reason why
StartupExit(why) == Len(runs') = Len(runs) + 1 /\ Last(runs').why = why

\* no file is written, no row upserted, no request sent to the message
\* source and no download made
NoWork == UNCHANGED <<disk, store, seq, now, fx, dl, dlcalls, ps, px, en, em>>

\* C26: a run that exits for a missing credential exits non-zero in its
\* first step, before the database is awaited, with no request to the
\* message source, no download, no file written and no row upserted; a run
\* that exits because the database never became ready exits non-zero from
\* the wait for it, and from its start to that exit there is no request to
\* the message source, no download and no upsert.
C26_FatalErrorsPrecedeWork ==
    /\ [][StartupExit("config") =>
            /\ mn.pc \in {"idle", "exit0", "exit1"} /\ mn'.pc = "exit1"
            /\ Last(runs').exit = "exit1"
            /\ NoWork]_vars
    /\ [][StartupExit("database") =>
            /\ mn.pc = "wait" /\ mn'.pc = "exit1"
            /\ Last(runs').exit = "exit1"
            /\ NoWork]_vars
    /\ [][mn'.pc = "wait" => NoWork]_vars
    /\ [](mn.pc = "wait" => Active = {} /\ store = mn.store0)

\* a run exited for a missing credential and the next one for the database
C26_Witness ==
    /\ Len(runs) = 2
    /\ runs[1].why = "config" /\ runs[1].exit = "exit1"
    /\ runs[2].why = "database" /\ runs[2].exit = "exit1"

====
